---- MODULE Spec2Model ----
(***************************************************************************)
(* SawyerSoccerEnvV2 (metaworld/envs/mujoco/sawyer_xyz/v2/                 *)
(* sawyer_soccer_v2.py): the task sampler reset_model, the reward          *)
(* compute_reward with _gripper_caging_reward, and evaluate_state.         *)
(*                                                                         *)
(* Numbers.  Lengths are in millimetres (0.07 m is 70).  A real number r   *)
(* is the pair <<floor(r), ceil(r)>>; an exact value v is <<v, v>>.  With  *)
(* integer thresholds t the comparisons of the code are then exact:        *)
(*   r < t  <=> floor(r) < t        r <= t <=> ceil(r) <= t                *)
(* Scores of [0,1] are fixed-point integers 0..ONE.  A reward r is the     *)
(* integer 2*ONE*r, so that 3*g + 6.5*p is 6*g + 13*p without rounding.    *)
(***************************************************************************)
EXTENDS Integers, Sequences, FiniteSets, TLC

\* ------------------------------------------------------------------ bounds
\* The fixed-point value of the score 1.0.
ONE == 1000
\* Grid of a sampling box: each axis takes low + k*(high-low)/RandGrid.
RandGrid == 1
\* Largest number of redraws of the rejection loop the model follows.
MaxRedraws == 2

\* --------------------------------------------------------------- constants
OBJ_RADIUS == 13
TARGET_RADIUS == 70
\* init_config["obj_init_angle"] = 0.3, in thousandths
OBJ_INIT_ANGLE == 300
\* "no value": an attribute not yet assigned
None == <<>>

\* ----------------------------------------------------------------- numbers
Abs(a) == IF a < 0 THEN -a ELSE a
Min(a, b) == IF a < b THEN a ELSE b
Max(a, b) == IF a < b THEN b ELSE a

RECURSIVE SqrtSearch(_, _, _)
\* the r with lo <= r < hi and r*r <= n < (r+1)*(r+1)
SqrtSearch(n, lo, hi) ==
    IF hi - lo <= 1 THEN lo
    ELSE LET mid == (lo + hi) \div 2
         IN  IF mid * mid <= n THEN SqrtSearch(n, mid, hi)
                               ELSE SqrtSearch(n, lo, mid)

ISqrt(n) == SqrtSearch(n, 0, Min(n, 46340) + 1)

\* a real number known exactly
Exact(v) == <<v, v>>
\* the real sqrt(n) for an integer n >= 0
Sqrt(n) == LET r == ISqrt(n) IN IF r * r = n THEN <<r, r>> ELSE <<r, r + 1>>

\* --------------------------------------------------------- numpy operators
\* a - b on vectors of equal length
Sub(a, b) == [i \in DOMAIN a |-> a[i] - b[i]]
\* a + b
Add(a, b) == [i \in DOMAIN a |-> a[i] + b[i]]
\* a * b, elementwise
Mul(a, b) == [i \in DOMAIN a |-> a[i] * b[i]]

RECURSIVE SumSq(_)
SumSq(v) == IF v = <<>> THEN 0 ELSE Head(v) * Head(v) + SumSq(Tail(v))

\* np.linalg.norm(v): the Euclidean length, a real
norm(v) == Sqrt(SumSq(v))

\* np.clip(x, lo, hi)
clip(x, lo, hi) == Max(lo, Min(x, hi))

\* ------------------------------------------------------------ reward_utils
\* reward_utils.tolerance(x, bounds=(lower, upper), margin, "long_tail"):
\* 1 inside the bounds; outside, 1 / ((3*d/margin)^2 + 1) at the distance d
\* from the nearer bound (0.1 at d = margin); margin 0 is the indicator.
\* x and margin are reals, lower and upper integers; margin >= 0 is the
\* function's contract.
tolerance(x, lower, upper, margin) ==
    LET in_bounds == lower <= x[1] /\ x[2] <= upper
        d == IF x[1] < lower THEN lower - x[1] ELSE x[1] - upper
        m == margin[2]
    IN  IF in_bounds THEN ONE
        ELSE IF m = 0 THEN 0
        ELSE (ONE * m * m) \div (9 * d * d + m * m)

\* reward_utils.hamacher_product(a, b) = a*b / (a + b - a*b), 0 when the
\* denominator is 0
hamacher_product(a, b) ==
    LET denominator == (a + b) * ONE - a * b
    IN  IF denominator > 0 THEN (ONE * a * b) \div denominator ELSE 0

\* ------------------------------------------------------------ configuration
\* a sampling box is <<low, high>> over (object xyz, goal xyz):
\* np.hstack((obj_low, goal_low)), np.hstack((obj_high, goal_high))
Box(obj_low, goal_low, obj_high, goal_high) ==
    <<obj_low \o goal_low, obj_high \o goal_high>>

\* the constructor's boxes: object fixed at (0, 0.65), goal at (0, 0.85)
ConfiguredSpace ==
    Box(<<0, 650, 30>>, <<0, 850, 0>>, <<0, 650, 30>>, <<0, 850, 0>>)

\* the boxes of the commented-out lines 23-28
CommentedSpace ==
    Box(<<-100, 600, 30>>, <<-100, 800, 0>>, <<100, 700, 30>>, <<100, 900, 0>>)

\* a box whose goal height ranges from goal_low's 0.0 to self.goal's 0.03
TallSpace ==
    Box(<<0, 650, 30>>, <<0, 850, 0>>, <<0, 650, 30>>, <<0, 850, 30>>)

Spaces == {ConfiguredSpace, CommentedSpace, TallSpace}

\* self.goal: reset_model copies it into self._target_pos (line 145) and
\* overwrites the copy with the draw's goal before anything reads it
goal == <<0, 900, 30>>
\* init_config["obj_init_pos"]
InitObjPos == <<0, 600, 30>>
x_scaling_flat == <<0, 1, 1>>

\* x_scaling of compute_reward
x_scaling == <<3, 1, 1>>

\* ------------------------------------------------------------- the simulator
\* Poses of the gripper the simulator can report: the tool centre point, the
\* two pads and the contact flag.
Pose(tcp, lp, rp, touching) ==
    [tcp |-> tcp, leftpad |-> lp, rightpad |-> rp, touching |-> touching]

\* poses _reset_hand leaves the hand in (above and behind the object)
HandPoses ==
    { Pose(<<0, 560, 50>>, <<0, 600, 50>>, <<0, 520, 50>>, FALSE),
      Pose(<<3, 560, 34>>, <<0, 590, 34>>, <<0, 530, 34>>, FALSE) }

\* poses a simulation step can lead to
SimPoses ==
    HandPoses \cup
    { Pose(<<0, 650, 30>>, <<0, 670, 30>>, <<0, 630, 30>>, TRUE),
      Pose(<<2, 655, 32>>, <<0, 690, 30>>, <<0, 620, 30>>, FALSE),
      Pose(<<0, 700, 60>>, <<0, 715, 60>>, <<0, 685, 60>>, TRUE) }

\* ------------------------------------------------------------------ inputs
\* an observation: hand position, gripper opening (obs[3], in thousandths),
\* object position (obs[4:7])
Observation(opened, obj) == <<0, 0, 0, opened>> \o obj
\* With the target at (0, 0.85, 0): the object at its start, lifted, on the
\* target, within the weighted radius, within the true radius only, at the
\* true radius exactly and just beyond it, and on both sides of the goal-line
\* rule.
Observations ==
    { Observation(800, <<0, 650, 30>>), Observation(800, <<0, 700, 60>>),
      Observation(0, <<0, 850, 0>>), Observation(0, <<20, 850, 0>>),
      Observation(0, <<50, 850, 0>>), Observation(0, <<0, 920, 0>>),
      Observation(0, <<0, 921, 0>>), Observation(0, <<150, 760, 0>>),
      Observation(0, <<100, 800, 0>>), Observation(0, <<150, 700, 0>>),
      Observation(0, <<-150, 990, 0>>) }
\* actions: the last component is the gripper command, in thousandths
Actions == {<<0, 0, 0, -1000>>, <<0, 0, 0, 2000>>}

\* -------------------------------------------------------------------- state
VARIABLES
    space,            \* self._random_reset_space
    _target_pos,      \* self._target_pos
    obj_init_pos,     \* self.obj_init_pos
    obj_init_angle,   \* self.obj_init_angle
    maxPushDist,      \* self.maxPushDist
    init_tcp,         \* self.init_tcp
    init_left_pad,    \* self.init_left_pad
    init_right_pad,   \* self.init_right_pad
    sim,              \* the simulator's pose: tcp_center, the pads, touching_object
    rand_vec,         \* goal_pos of the last reset_model at the loop's exit
    redraws,          \* executions of the loop body in the last reset_model
    call              \* the last operation, its arguments and what it returned

episode ==
    <<_target_pos, obj_init_pos, obj_init_angle, maxPushDist,
      init_tcp, init_left_pad, init_right_pad>>

vars ==
    <<space, _target_pos, obj_init_pos, obj_init_angle, maxPushDist,
      init_tcp, init_left_pad, init_right_pad, sim, rand_vec, redraws, call>>

Call(op, action, obs, result) ==
    [op |-> op, action |-> action, obs |-> obs, result |-> result]

\* the state after __init__, with the sampling box given
Constructed(box) ==
    /\ space = box
    /\ _target_pos = None
    /\ obj_init_pos = InitObjPos
    /\ obj_init_angle = OBJ_INIT_ANGLE
    /\ maxPushDist = None
    /\ init_tcp = None
    /\ init_left_pad = None
    /\ init_right_pad = None
    /\ sim \in HandPoses
    /\ rand_vec = None
    /\ redraws = 0
    /\ call = Call("__init__", None, None, None)

Init == Constructed(ConfiguredSpace)

\* the state after __init__ with any box of Spaces as the sampling space: the
\* rejection loop and the goal height then have more than one possible draw
InitSampler == \E box \in Spaces : Constructed(box)

\* ------------------------------------------------------------- TaskSampler
\* one axis of the box: low + k*(high-low)/RandGrid
Axis(box, i) ==
    {box[1][i] + (k * (box[2][i] - box[1][i])) \div RandGrid : k \in 0..RandGrid}

\* self._get_state_rand_vec(): a vector of self._random_reset_space
_get_state_rand_vec ==
    {<<a, b, c, d, e, f>> : a \in Axis(space, 1), b \in Axis(space, 2),
                            c \in Axis(space, 3), d \in Axis(space, 4),
                            e \in Axis(space, 5), f \in Axis(space, 6)}

reset_loop_condition_10cm(goal_pos) ==
    norm(Sub(SubSeq(goal_pos, 1, 2), SubSeq(SubSeq(goal_pos, 4, 6), 1, 2)))[1] < 100

reset_loop_condition_25cm(goal_pos) ==
    norm(Sub(SubSeq(goal_pos, 1, 2), SubSeq(SubSeq(goal_pos, 4, 6), 1, 2)))[1] < 250

\* the condition of the rejection loop with self._target_pos = goal_pos[3:]:
\* np.linalg.norm(goal_pos[:2] - self._target_pos[:2]) < 0.15
reset_loop_condition(goal_pos) ==
    norm(Sub(SubSeq(goal_pos, 1, 2), SubSeq(SubSeq(goal_pos, 4, 6), 1, 2)))[1] < 150

accepted_target_pos_fixed_height(goal_pos) ==
    SubSeq(goal_pos, 4, 5) \o <<obj_init_pos[Len(obj_init_pos)]>>

\* self._target_pos = goal_pos[3:] at the loop's exit
accepted_target_pos(goal_pos) == SubSeq(goal_pos, 4, 6)

\* np.concatenate((goal_pos[:2], [self.obj_init_pos[-1]]))
accepted_obj_init_pos(goal_pos) ==
    SubSeq(goal_pos, 1, 2) \o <<obj_init_pos[Len(obj_init_pos)]>>

\* how many redraws a reset_model can make: any number while some draw can
\* be rejected, none when every draw passes
redraw_counts ==
    IF \E rejected \in _get_state_rand_vec : reset_loop_condition(rejected)
    THEN 0..MaxRedraws
    ELSE {0}

\* reset_model: _reset_hand, then draws until one passes; n counts the
\* redraws, each of them after a draw the loop's condition holds of.  The
\* pads' and the tool centre point's snapshots are those of the reset hand.
reset_model ==
    \E counts \in {redraw_counts} :
        \E goal_pos \in _get_state_rand_vec :
            /\ ~reset_loop_condition(goal_pos)
            /\ obj_init_angle' = OBJ_INIT_ANGLE
            /\ _target_pos' = accepted_target_pos(goal_pos)
            /\ obj_init_pos' = accepted_obj_init_pos(goal_pos)
            /\ maxPushDist' =
                   norm(Sub(SubSeq(accepted_obj_init_pos(goal_pos), 1, 2),
                            SubSeq(accepted_target_pos(goal_pos), 1, 2)))
            /\ rand_vec' = goal_pos
            /\ call' = Call("reset_model", None, None, None)
            /\ UNCHANGED space
            /\ \E hand \in HandPoses, n \in counts :
                /\ sim' = hand
                /\ init_tcp' = hand.tcp
                /\ init_left_pad' = hand.leftpad
                /\ init_right_pad' = hand.rightpad
                /\ redraws' = n

\* a step of the simulation: the gripper moves
do_simulation ==
    /\ _target_pos # None
    /\ \E pose \in SimPoses :
        /\ pose # sim
        /\ sim' = pose
    /\ call' = Call("do_simulation", None, None, None)
    /\ UNCHANGED <<space, episode, rand_vec, redraws>>

\* ------------------------------------------------------------ CagingReward
pad_success_margin == 50
x_z_success_margin == 5
grip_success_margin(obj_radius) == obj_radius + 10

\* v + np.array([0.0, -v[1], 0.0])
x_z(v) == Add(v, <<0, -v[2], 0>>)

\* x - t for a real x and an integer t
Minus(x, t) == <<x[1] - t, x[2] - t>>

\* min(max(0, action[-1]), 1)
gripper_closed(action) == Min(Max(0, action[Len(action)]), ONE)

\* gripping = y_gripping if caging > 0.95 else 0.0
gripping(caging, y_gripping) ==
    IF caging * 100 > 95 * ONE THEN y_gripping ELSE 0

caging_plus_gripping(caging, gripping_) == caging + gripping_

\* (caging + gripping) / 2
caging_and_gripping(caging, gripping_) == (caging + gripping_) \div 2

\* every value _gripper_caging_reward computes
_gripper_caging_steps(action, obj_position, obj_radius) ==
    LET tcp == sim.tcp
        left_pad == sim.leftpad
        right_pad == sim.rightpad
        delta_object_y_left_pad == left_pad[2] - obj_position[2]
        delta_object_y_right_pad == obj_position[2] - right_pad[2]
        right_caging_margin ==
            Abs(Abs(obj_position[2] - init_right_pad[2]) - pad_success_margin)
        left_caging_margin ==
            Abs(Abs(obj_position[2] - init_left_pad[2]) - pad_success_margin)
        right_caging ==
            tolerance(Exact(delta_object_y_right_pad), obj_radius,
                      pad_success_margin, Exact(right_caging_margin))
        left_caging ==
            tolerance(Exact(delta_object_y_left_pad), obj_radius,
                      pad_success_margin, Exact(left_caging_margin))
        right_gripping ==
            tolerance(Exact(delta_object_y_right_pad), obj_radius,
                      grip_success_margin(obj_radius), Exact(right_caging_margin))
        left_gripping ==
            tolerance(Exact(delta_object_y_left_pad), obj_radius,
                      grip_success_margin(obj_radius), Exact(left_caging_margin))
        y_caging == hamacher_product(right_caging, left_caging)
        y_gripping == hamacher_product(right_gripping, left_gripping)
        tcp_xz == x_z(tcp)
        obj_position_x_z == x_z(obj_position)
        tcp_obj_norm_x_z == norm(Sub(tcp_xz, obj_position_x_z))
        init_obj_x_z == x_z(obj_init_pos)
        init_tcp_x_z == x_z(init_tcp)
        tcp_obj_x_z_margin ==
            Minus(norm(Sub(init_obj_x_z, init_tcp_x_z)), x_z_success_margin)
        x_z_caging ==
            tolerance(tcp_obj_norm_x_z, 0, x_z_success_margin, tcp_obj_x_z_margin)
        caging == hamacher_product(y_caging, x_z_caging)
        gripping_ == gripping(caging, y_gripping)
    IN  [right_caging |-> right_caging,
         left_caging |-> left_caging,
         y_caging |-> y_caging,
         x_z_margin |-> tcp_obj_x_z_margin,
         gripper_closed |-> gripper_closed(action),
         caging |-> caging,
         gripping |-> gripping_,
         caging_and_gripping |-> caging_and_gripping(caging, gripping_)]

_gripper_caging_reward_closed(action, obj_position, obj_radius) ==
    LET s == _gripper_caging_steps(action, obj_position, obj_radius)
    IN  caging_and_gripping(s.caging, hamacher_product(s.gripper_closed, s.gripping))

_gripper_caging_reward(action, obj_position, obj_radius) ==
    _gripper_caging_steps(action, obj_position, obj_radius).caging_and_gripping

\* ----------------------------------------------------------- RewardComposer
\* obs[4:7] and obs[3]
obs_obj(obs) == SubSeq(obs, 5, 7)
obs_tcp_opened(obs) == obs[4]

\* np.linalg.norm((obj - self._target_pos) * x_scaling)
target_to_obj(obj) == norm(Mul(Sub(obj, _target_pos), x_scaling))

\* np.linalg.norm((obj - self.obj_init_pos) * x_scaling)
target_to_obj_init(obj) == norm(Mul(Sub(obj, obj_init_pos), x_scaling))

\* the tolerance score of the in-place term
in_place_tolerance(obj) ==
    tolerance(target_to_obj(obj), 0, TARGET_RADIUS, target_to_obj_init(obj))

\* goal_line = self._target_pos[1] - 0.1
goal_line == _target_pos[2] - 100

\* obj[1] > goal_line and abs(obj[0] - self._target_pos[0]) > 0.10
past_goal_line(obj) ==
    obj[2] > goal_line /\ Abs(obj[1] - _target_pos[1]) > 100

penalized_plus(in_place, obj) ==
    clip(in_place + (2 * ONE * (obj[2] - goal_line)) \div (1000 - goal_line), 0, ONE)

\* np.clip(in_place - 2 * ((obj[1] - goal_line) / (1 - goal_line)), 0.0, 1.0)
penalized(in_place, obj) ==
    clip(in_place - (2 * ONE * (obj[2] - goal_line)) \div (1000 - goal_line), 0, ONE)

\* the in-place score after the goal-line rule
in_place_score(obj) ==
    IF past_goal_line(obj) THEN penalized(in_place_tolerance(obj), obj)
                           ELSE in_place_tolerance(obj)

\* the reward 10.0
BONUS == 20 * ONE

bonus_within_obj_radius(target_to_obj_) == target_to_obj_[1] < OBJ_RADIUS

\* target_to_obj < self.TARGET_RADIUS
bonus_condition(target_to_obj_) == target_to_obj_[1] < TARGET_RADIUS

compute_reward(action, obs) ==
    LET obj == obs_obj(obs)
        tcp_opened == obs_tcp_opened(obs)
        tcp_to_obj == norm(Sub(obj, sim.tcp))
        in_place == in_place_score(obj)
        object_grasped == _gripper_caging_reward(action, obj, OBJ_RADIUS)
        reward == 6 * object_grasped + 13 * in_place
    IN  [reward |-> IF bonus_condition(target_to_obj(obj)) THEN BONUS ELSE reward,
         tcp_to_obj |-> tcp_to_obj,
         tcp_opened |-> tcp_opened,
         target_to_obj |-> norm(Sub(obj, _target_pos)),
         object_grasped |-> object_grasped,
         in_place |-> in_place]

\* -------------------------------------------------------- OutcomeClassifier
\* float(b)
Float(b) == IF b THEN 1 ELSE 0

success_strict(target_to_obj_) == Float(target_to_obj_[1] < 70)

\* float(target_to_obj <= 0.07)
success(target_to_obj_) == Float(target_to_obj_[2] <= 70)

\* float(tcp_to_obj <= 0.03)
near_object(tcp_to_obj) == Float(tcp_to_obj[2] <= 30)

\* float(self.touching_object and (tcp_opened > 0)
\*       and (obj[2] - 0.02 > self.obj_init_pos[2]))
grasp_success(tcp_opened, obj) ==
    Float(sim.touching /\ tcp_opened > 0 /\ obj[3] - 20 > obj_init_pos[3])

evaluate_state(obs, action) ==
    LET obj == obs_obj(obs)
        r == compute_reward(action, obs)
    IN  [reward |-> r.reward,
         info |-> [success |-> success(r.target_to_obj),
                   near_object |-> near_object(r.tcp_to_obj),
                   grasp_success |-> grasp_success(r.tcp_opened, obj),
                   grasp_reward |-> r.object_grasped,
                   in_place_reward |-> r.in_place,
                   obj_to_target |-> r.target_to_obj,
                   unscaled_reward |-> r.reward]]

\* ------------------------------------------------------------------ actions
compute_reward_moving_obj ==
    /\ _target_pos # None
    /\ \E action \in Actions, obs \in Observations :
        /\ call' = Call("compute_reward", action, obs, compute_reward(action, obs))
        /\ obj_init_pos' = obs_obj(obs)
    /\ UNCHANGED <<space, _target_pos, obj_init_angle, maxPushDist, init_tcp,
                   init_left_pad, init_right_pad, sim, rand_vec, redraws>>

\* a call of compute_reward(action, obs) in an episode
compute_reward_call ==
    /\ _target_pos # None
    /\ \E action \in Actions, obs \in Observations :
        call' = Call("compute_reward", action, obs, compute_reward(action, obs))
    /\ UNCHANGED <<space, episode, sim, rand_vec, redraws>>

\* a call of evaluate_state(obs, action) in an episode
evaluate_state_call ==
    /\ _target_pos # None
    /\ \E action \in Actions, obs \in Observations :
        call' = Call("evaluate_state", action, obs, evaluate_state(obs, action))
    /\ UNCHANGED <<space, episode, sim, rand_vec, redraws>>

Next ==
    \/ reset_model
    \/ do_simulation
    \/ compute_reward_call
    \/ evaluate_state_call

Spec == Init /\ [][Next]_vars

\* the task sampler alone, over every box of Spaces
NextSampler ==
    \/ reset_model
    \/ do_simulation

SpecSampler == InitSampler /\ [][NextSampler]_vars

\* =================================================================== claims
\* what the last call returned, in compute_reward's names
Returned == call.op \in {"compute_reward", "evaluate_state"}

returned ==
    IF call.op = "compute_reward" THEN call.result
    ELSE [reward |-> call.result.reward,
          target_to_obj |-> call.result.info.obj_to_target,
          object_grasped |-> call.result.info.grasp_reward,
          in_place |-> call.result.info.in_place_reward]

called_obj == obs_obj(call.obs)

\* squares of the true and of the x-weighted object-to-target distance
TrueDistSq(obj) ==
    (obj[1] - _target_pos[1]) * (obj[1] - _target_pos[1])
    + (obj[2] - _target_pos[2]) * (obj[2] - _target_pos[2])
    + (obj[3] - _target_pos[3]) * (obj[3] - _target_pos[3])

WeightedDistSq(obj) ==
    9 * (obj[1] - _target_pos[1]) * (obj[1] - _target_pos[1])
    + (obj[2] - _target_pos[2]) * (obj[2] - _target_pos[2])
    + (obj[3] - _target_pos[3]) * (obj[3] - _target_pos[3])

\* C1, as stated: whenever the true (unweighted) object-to-target distance is
\* below TARGET_RADIUS, the returned reward is exactly 10.0.
C1_BonusWithinTrueRadius ==
    (Returned /\ TrueDistSq(called_obj) < TARGET_RADIUS * TARGET_RADIUS)
        => returned.reward = BONUS

\* C1, amended: whenever the x-weighted (3, 1, 1) object-to-target distance is
\* below TARGET_RADIUS, the returned reward is exactly 10.0, whatever the
\* grasp quality and the in-place score.
C1_BonusWithinWeightedRadius ==
    (Returned /\ WeightedDistSq(called_obj) < TARGET_RADIUS * TARGET_RADIUS)
        => returned.reward = BONUS

\* C1 witness: a call within the weighted radius returned 10.0 although its
\* grasp quality is below 1
C1_Witness ==
    /\ call.op = "compute_reward"
    /\ called_obj # _target_pos
    /\ WeightedDistSq(called_obj) < TARGET_RADIUS * TARGET_RADIUS
    /\ call.result.object_grasped < ONE
    /\ call.result.reward = BONUS

\* the first-two-axis separation of the accepted object and goal, squared
SeparationSq ==
    (obj_init_pos[1] - _target_pos[1]) * (obj_init_pos[1] - _target_pos[1])
    + (obj_init_pos[2] - _target_pos[2]) * (obj_init_pos[2] - _target_pos[2])

\* C2: once reset_model has returned, the accepted object and goal are at
\* least 0.15 apart in their first two coordinates.
C2_AcceptedSeparation ==
    rand_vec # None => SeparationSq >= 150 * 150

\* C2 witness: a reset that redrew and then accepted a pair
C2_Witness ==
    /\ call.op = "reset_model"
    /\ space = CommentedSpace
    /\ redraws > 0
    /\ SeparationSq >= 150 * 150

\* C3: with the constructor's boxes there is a draw and every draw passes
\* the loop's condition at once, so reset_model returns; and when it has, the
\* draw was separated by exactly 0.20 and no redraw was made.
C3_ConfiguredFirstDrawAccepted ==
    /\ _get_state_rand_vec # {}
    /\ \A goal_pos \in _get_state_rand_vec : ~reset_loop_condition(goal_pos)
    /\ call.op = "reset_model" =>
        /\ redraws = 0
        /\ rand_vec = ConfiguredSpace[1]
        /\ SeparationSq = 200 * 200
        /\ maxPushDist = Exact(200)

\* C3 witness: a reset_model under the constructor's boxes has returned
C3_Witness ==
    /\ space = ConfiguredSpace
    /\ call.op = "reset_model"
    /\ redraws = 0
    /\ _target_pos = <<0, 850, 0>>
    /\ obj_init_pos = <<0, 650, 30>>

IsScore(v) == v \in 0..ONE

called_steps == _gripper_caging_steps(call.action, called_obj, OBJ_RADIUS)

\* C4: every value _gripper_caging_reward asserts on, and the value it
\* returns, lies in [0, 1].
C4_CagingInUnitInterval ==
    Returned =>
        /\ IsScore(called_steps.right_caging)
        /\ IsScore(called_steps.left_caging)
        /\ IsScore(called_steps.y_caging)
        /\ IsScore(called_steps.gripper_closed)
        /\ IsScore(called_steps.caging)
        /\ IsScore(called_steps.gripping)
        /\ IsScore(called_steps.caging_and_gripping)
        /\ returned.object_grasped = called_steps.caging_and_gripping

\* C4 witness: a call whose caging exceeded 0.95 so that gripping counted
C4_Witness ==
    /\ Returned
    /\ called_steps.caging * 100 > 95 * ONE
    /\ called_steps.gripping > 0
    /\ returned.object_grasped > ONE \div 2

\* C5: evaluate_state reports success 1 exactly when the true object-to-target
\* distance is at most 0.07, and 0 otherwise.
C5_SuccessIffWithinRadius ==
    call.op = "evaluate_state" =>
        /\ call.result.info.success \in {0, 1}
        /\ call.result.info.success = 1 <=> TrueDistSq(called_obj) <= 70 * 70

\* C5 witness: at a distance of exactly 0.07 success is 1
C5_Witness ==
    /\ call.op = "evaluate_state"
    /\ TrueDistSq(called_obj) = 70 * 70
    /\ call.result.info.success = 1

\* two draws that differ only in the goal's third component
DifferOnlyInGoalHeight(v, w) ==
    /\ v # None
    /\ w # None
    /\ SubSeq(v, 1, 5) = SubSeq(w, 1, 5)
    /\ v[6] # w[6]

called_past_goal_line ==
    /\ called_obj[2] > _target_pos[2] - 100
    /\ Abs(called_obj[1] - _target_pos[1]) > 100

called_penalty ==
    (2 * ONE * (called_obj[2] - (_target_pos[2] - 100)))
        \div (1000 - (_target_pos[2] - 100))

\* C7: the in-place score is the tolerance score unless the object is past
\* the goal line and more than 0.10 aside; then it is the tolerance score less
\* the penalty, clamped to [0, 1], and never above the tolerance score.  It
\* always lies in [0, 1].
C7_GoalLineRule ==
    Returned =>
        LET tol == in_place_tolerance(called_obj)
            ip == returned.in_place
        IN  /\ IsScore(ip)
            /\ ~called_past_goal_line => ip = tol
            /\ called_past_goal_line =>
                /\ ip = Max(0, Min(tol - called_penalty, ONE))
                /\ ip <= tol

\* C7 witness: a penalized score strictly between 0 and the tolerance score
C7_Witness ==
    /\ Returned
    /\ called_past_goal_line
    /\ returned.in_place > 0
    /\ returned.in_place < in_place_tolerance(called_obj)

\* C8: compute_reward and evaluate_state leave the episode's state as it is,
\* only reset_model changes _target_pos and obj_init_pos, and the call just
\* made would return the same again.
C8_CallsArePure ==
    /\ [](call.op = "compute_reward" =>
            call.result = compute_reward(call.action, call.obs))
    /\ [](call.op = "evaluate_state" =>
            call.result = evaluate_state(call.obs, call.action))
    /\ [][call'.op \in {"compute_reward", "evaluate_state"}
            => UNCHANGED episode]_vars
    /\ [][(_target_pos' # _target_pos \/ obj_init_pos' # obj_init_pos)
            => call'.op = "reset_model"]_vars

\* C8 witness: a call was made in an episode and its result stands
C8_Witness ==
    /\ call.op = "evaluate_state"
    /\ maxPushDist = Exact(200)
    /\ call.result.info.in_place_reward > 0
    /\ call.result = evaluate_state(call.obs, call.action)

\* C9: a reward of 10.0 comes with success 1; with success 0 the reward is
\* 3*graspQuality + 6.5*inPlace, at most 9.5.
C9_BonusImpliesSuccess ==
    call.op = "evaluate_state" =>
        LET info == call.result.info
        IN  /\ call.result.reward = BONUS => info.success = 1
            /\ info.success = 0 =>
                /\ call.result.reward = 6 * info.grasp_reward + 13 * info.in_place_reward
                /\ call.result.reward <= 19 * ONE
                /\ call.result.reward < BONUS

\* C9 witness: a step without success and with a positive shaped reward
C9_Witness ==
    /\ call.op = "evaluate_state"
    /\ call.result.info.success = 0
    /\ call.result.reward > 0
    /\ call.result.reward = 6 * call.result.info.grasp_reward
                            + 13 * call.result.info.in_place_reward

\* C10: compute_reward returns the same tuple for every action.
C10_RewardIgnoresAction ==
    call.op = "compute_reward" =>
        \A a \in Actions : compute_reward(a, call.obs) = call.result

\* C10 witness: a call with the gripper commanded shut whose grasp quality is 1
C10_Witness ==
    /\ call.op = "compute_reward"
    /\ gripper_closed(call.action) = ONE
    /\ \E a \in Actions : gripper_closed(a) = 0
    /\ call.result.object_grasped = ONE

====
